---- MODULE Spec2Model ----
(***************************************************************************)
(* Model of the file-manager routes of src/src/index.js.                  *)
(*                                                                         *)
(* Strings are sequences of one-character strings.  The path library is    *)
(* modelled with POSIX semantics ("/" is the only separator path.normalize *)
(* and path.join know; "\" is an ordinary character for them).  The        *)
(* filesystem is a tree of absolute paths, each a sequence of segments.    *)
(* Every route handler is synchronous JavaScript (existsSync, statSync,    *)
(* rmSync, ...), so on Node's single thread a handler runs to completion   *)
(* before another one starts: one handler is one action.                   *)
(***************************************************************************)
EXTENDS Integers, Sequences, FiniteSets, TLC

VARIABLES dirs, files, pre, last, n, pending, relPath, result

vars == <<dirs, files, pre, last, n, pending, relPath, result>>

(* ------------------------------ bounds -------------------------------- *)
MaxLen == 8
MaxReqs == 4
MaxConcReqs == 5

(* --------------------------- string helpers --------------------------- *)
SLASH == "/"
BSLASH == "\\"
DOT == "."

Alphabet == {DOT, SLASH, BSLASH, "u"}

Null == <<"null">>

DotDot == <<DOT, DOT>>

RECURSIVE SplitAcc(_, _, _, _)
SplitAcc(s, seps, cur, acc) ==
  IF s = <<>> THEN Append(acc, cur)
  ELSE IF Head(s) \in seps
       THEN SplitAcc(Tail(s), seps, <<>>, Append(acc, cur))
       ELSE SplitAcc(Tail(s), seps, Append(cur, Head(s)), acc)

\* s.split(sep), empty pieces kept
SplitOn(s, seps) == SplitAcc(s, seps, <<>>, <<>>)

RECURSIVE JoinSegs(_)
JoinSegs(segs) ==
  IF segs = <<>> THEN <<>>
  ELSE IF Len(segs) = 1 THEN segs[1]
  ELSE segs[1] \o <<SLASH>> \o JoinSegs(Tail(segs))

StartsWith(s, p) ==
  /\ Len(p) <= Len(s)
  /\ SubSeq(s, 1, Len(p)) = p

Includes(s, p) ==
  \E i \in 1..(Len(s) - Len(p) + 1) : SubSeq(s, i, i + Len(p) - 1) = p

(* ------------------- path.normalize / path.join (POSIX) --------------- *)
RECURSIVE NormalizeSegs(_, _, _)
NormalizeSegs(segs, allowAboveRoot, res) ==
  IF segs = <<>> THEN res
  ELSE LET seg == Head(segs)
           rest == Tail(segs)
       IN IF seg = <<>> \/ seg = <<DOT>>
          THEN NormalizeSegs(rest, allowAboveRoot, res)
          ELSE IF seg = DotDot
          THEN IF res # <<>> /\ res[Len(res)] # DotDot
               THEN NormalizeSegs(rest, allowAboveRoot, SubSeq(res, 1, Len(res) - 1))
               ELSE IF allowAboveRoot
                    THEN NormalizeSegs(rest, allowAboveRoot, Append(res, DotDot))
                    ELSE NormalizeSegs(rest, allowAboveRoot, res)
          ELSE NormalizeSegs(rest, allowAboveRoot, Append(res, seg))

normalize(p) ==
  IF p = <<>> THEN <<DOT>>
  ELSE LET isAbsolute == (p[1] = SLASH)
           trailingSeparator == (p[Len(p)] = SLASH)
           body == JoinSegs(NormalizeSegs(SplitOn(p, {SLASH}), ~isAbsolute, <<>>))
       IN IF body = <<>>
          THEN (IF isAbsolute THEN <<SLASH>>
                ELSE IF trailingSeparator THEN <<DOT, SLASH>> ELSE <<DOT>>)
          ELSE (IF isAbsolute THEN <<SLASH>> ELSE <<>>)
               \o body
               \o (IF trailingSeparator THEN <<SLASH>> ELSE <<>>)

join(a, b) ==
  LET joined == IF a = <<>> THEN b
                ELSE IF b = <<>> THEN a
                ELSE a \o <<SLASH>> \o b
  IN normalize(joined)

(* ------------------------------ resolveSafe --------------------------- *)
UPLOAD_DIR == <<SLASH, "u">>

RECURSIVE StripLeadingSeparators(_)
StripLeadingSeparators(s) ==
  IF s # <<>> /\ Head(s) \in {SLASH, BSLASH}
  THEN StripLeadingSeparators(Tail(s))
  ELSE s

cleanedOf(rel) == StripLeadingSeparators(normalize(rel))

\* resolveSafe with line 83 comparing instead of searching
resolveSafeDotDotEquals(rel) ==
  IF rel = <<>> THEN UPLOAD_DIR
  ELSE LET cleaned == cleanedOf(rel)
           resolved == join(UPLOAD_DIR, cleaned)
       IN IF cleaned = DotDot THEN Null
          ELSE IF ~StartsWith(resolved, UPLOAD_DIR) THEN Null
          ELSE resolved

\* resolveSafe without line 83
resolveSafeNoDotDotCheck(rel) ==
  IF rel = <<>> THEN UPLOAD_DIR
  ELSE LET cleaned == cleanedOf(rel)
           resolved == join(UPLOAD_DIR, cleaned)
       IN IF ~StartsWith(resolved, UPLOAD_DIR) THEN Null ELSE resolved

resolveSafe(rel) ==
  IF rel = <<>> THEN UPLOAD_DIR
  ELSE LET cleaned == cleanedOf(rel)
           resolved == join(UPLOAD_DIR, cleaned)
       IN IF Includes(cleaned, DotDot) THEN Null
          ELSE IF ~StartsWith(resolved, UPLOAD_DIR) THEN Null
          ELSE resolved

(* ------------------------------ filesystem ---------------------------- *)
\* The segments the kernel walks for path p.  Every path handed to the
\* filesystem below comes out of join, so it holds no "." or ".." segment.
Segs(p) == SelectSeq(SplitOn(p, {SLASH}), LAMBDA s : s # <<>>)

HasTrailingSlash(p) == Len(p) > 1 /\ p[Len(p)] = SLASH

Prefixes(s) == {SubSeq(s, 1, k) : k \in 0..Len(s)}

IsUnder(s, top) == Len(top) <= Len(s) /\ SubSeq(s, 1, Len(top)) = top

RootSegs == Segs(UPLOAD_DIR)

existsSync(d, f, p) ==
  IF HasTrailingSlash(p) THEN Segs(p) \in d ELSE Segs(p) \in (d \cup f)

isDirectory(d, p) == Segs(p) \in d

\* fs.mkdirSync(p, {recursive: true}): ENOTDIR/EEXIST when a component is a file
mkdirSync(d, f, p) ==
  [ok |-> Prefixes(Segs(p)) \cap f = {}, dirs |-> d \cup Prefixes(Segs(p))]

\* rmSync emptying a directory and leaving the directory itself
rmSyncContentsOnly(d, f, p) ==
  [dirs |-> {x \in d : ~IsUnder(x, Segs(p)) \/ x = Segs(p)},
   files |-> {x \in f : ~IsUnder(x, Segs(p))}]

\* fs.rmSync(p, {recursive: true, force: true})
rmSync(d, f, p) ==
  [dirs |-> {x \in d : ~IsUnder(x, Segs(p))},
   files |-> {x \in f : ~IsUnder(x, Segs(p))}]

\* unlinkSync taking the file's siblings with it
unlinkSyncSiblings(f, p) ==
  {x \in f : ~(Len(x) = Len(Segs(p)) /\ IsUnder(x, SubSeq(Segs(p), 1, Len(Segs(p)) - 1)))}

unlinkSync(f, p) == f \ {Segs(p)}

\* file.mv(filePath) of express-fileupload with its default options: the file
\* is written at filePath; no parent directory is created.
mv(d, f, filePath) ==
  LET s == Segs(filePath)
  IN [ok |-> /\ ~HasTrailingSlash(filePath)
             /\ s # <<>>
             /\ s \notin d
             /\ SubSeq(s, 1, Len(s) - 1) \in d,
      files |-> f \cup {s}]

listDirectory(d, f, baseDir) ==
  {[name |-> x[Len(x)], isDirectory |-> x \in d] :
     x \in {y \in d \cup f : Len(y) = Len(Segs(baseDir)) + 1 /\ IsUnder(y, Segs(baseDir))}}

(* ------------------------------- handlers ----------------------------- *)
NoFile == <<"nofile">>

\* What a handler did: the filesystem it leaves, how the request ended
\* ("uncaught" = an exception left the handler), the path a file was moved to.
Outcome(d, f, status, wrote) ==
  [dirs |-> d, files |-> f, status |-> status, wrote |-> wrote]

GetRoot(d, f) ==
  IF isDirectory(d, UPLOAD_DIR) THEN Outcome(d, f, "200", Null)
  ELSE Outcome(d, f, "500", Null)

\* POST /folder without the existsSync guard of line 116
PostFolderNoExistsCheck(d, f, name) ==
  IF name = <<>> THEN Outcome(d, f, "400", Null)
  ELSE LET safe == resolveSafe(name)
       IN IF safe = Null THEN Outcome(d, f, "400", Null)
          ELSE IF mkdirSync(d, f, safe).ok
               THEN Outcome(mkdirSync(d, f, safe).dirs, f, "302", Null)
               ELSE Outcome(d, f, "uncaught", Null)

PostFolder(d, f, name) ==
  IF name = <<>> THEN Outcome(d, f, "400", Null)
  ELSE LET safe == resolveSafe(name)
       IN IF safe = Null THEN Outcome(d, f, "400", Null)
          ELSE IF existsSync(d, f, safe) THEN Outcome(d, f, "302", Null)
          ELSE IF mkdirSync(d, f, safe).ok
               THEN Outcome(mkdirSync(d, f, safe).dirs, f, "302", Null)
               ELSE Outcome(d, f, "uncaught", Null)

\* POST /upload without the existsSync test of line 133
PostUploadNoExistsCheck(d, f, bodyFolder, queryFolder, file) ==
  IF file = NoFile THEN Outcome(d, f, "400", Null)
  ELSE LET folder == IF bodyFolder # <<>> THEN bodyFolder ELSE queryFolder
           destDir == IF folder # <<>> THEN resolveSafe(folder) ELSE UPLOAD_DIR
       IN IF destDir = Null
          THEN Outcome(d, f, "400", Null)
          ELSE LET filePath == join(destDir, file)
               IN IF mv(d, f, filePath).ok
                  THEN Outcome(d, mv(d, f, filePath).files, "302", filePath)
                  ELSE Outcome(d, f, "500", Null)

PostUpload(d, f, bodyFolder, queryFolder, file) ==
  IF file = NoFile THEN Outcome(d, f, "400", Null)
  ELSE LET folder == IF bodyFolder # <<>> THEN bodyFolder ELSE queryFolder
           destDir == IF folder # <<>> THEN resolveSafe(folder) ELSE UPLOAD_DIR
       IN IF destDir = Null \/ (folder # <<>> /\ ~existsSync(d, f, destDir))
          THEN Outcome(d, f, "400", Null)
          ELSE LET filePath == join(destDir, file)
               IN IF mv(d, f, filePath).ok
                  THEN Outcome(d, mv(d, f, filePath).files, "302", filePath)
                  ELSE Outcome(d, f, "500", Null)

GetDownload(d, f, rel) ==
  LET safe == resolveSafe(rel)
  IN IF safe = Null \/ ~existsSync(d, f, safe) \/ isDirectory(d, safe)
     THEN Outcome(d, f, "404", Null)
     ELSE Outcome(d, f, "200", Null)

\* The three listing routes share one shape: 404 unless the resolved path is
\* an existing directory, else the listing (200).
ListFolder(d, f, rel) ==
  LET folderPath == resolveSafe(rel)
  IN IF folderPath = Null \/ ~existsSync(d, f, folderPath) \/ ~isDirectory(d, folderPath)
     THEN Outcome(d, f, "404", Null)
     ELSE Outcome(d, f, "200", Null)

GetApiFolder(d, f, rel) == ListFolder(d, f, rel)

GetDownloadFolder(d, f, folder) == ListFolder(d, f, folder)

GetFolder(d, f, name) == ListFolder(d, f, name)

\* The redirect target (lines 235-237) is computed from safe after the removal
\* and touches nothing; both branches answer 302.
PostDelete(d, f, target) ==
  IF target = <<>> THEN Outcome(d, f, "400", Null)
  ELSE LET safe == resolveSafe(target)
       IN IF safe = Null \/ ~existsSync(d, f, safe) THEN Outcome(d, f, "404", Null)
          ELSE IF isDirectory(d, safe)
               THEN Outcome(rmSync(d, f, safe).dirs, rmSync(d, f, safe).files, "302", Null)
               ELSE Outcome(d, unlinkSync(f, safe), "302", Null)

(* ------------------------------- requests ----------------------------- *)
Req(op, a, b, q) == [op |-> op, a |-> a, b |-> b, q |-> q]

NoReq == Req("none", <<>>, <<>>, <<>>)

\* Route dispatch (router.get / router.post registrations)
Handle(d, f, req) ==
  CASE req.op = "root" -> GetRoot(d, f)
    [] req.op = "folder" -> PostFolder(d, f, req.a)
    [] req.op = "upload" -> PostUpload(d, f, req.a, req.q, req.b)
    [] req.op = "download" -> GetDownload(d, f, req.a)
    [] req.op = "api" -> GetApiFolder(d, f, req.a)
    [] req.op = "zip" -> GetDownloadFolder(d, f, req.a)
    [] req.op = "delete" -> PostDelete(d, f, req.a)
    [] req.op = "browse" -> GetFolder(d, f, req.a)

\* Client-supplied strings tried against the handlers
P_a == <<"a">>
P_aa == <<"a", SLASH, "a">>
P_dot == <<DOT>>
P_slash == <<SLASH>>
P_up == <<DOT, DOT, SLASH, "u", "a">>
P_aup == <<"a", SLASH, DOT, DOT>>
P_b == <<"b">>

Targets == {P_a, P_aa, P_dot, P_slash, P_up, P_aup}

FileNames == {P_a, P_b, P_up}

QueryFolders == {<<>>, P_a}

ConcRequests ==
  {Req("folder", P_a, <<>>, <<>>), Req("upload", <<>>, P_a, <<>>),
   Req("upload", P_a, P_a, <<>>), Req("browse", P_a, <<>>, <<>>)}
  \cup {Req("delete", t, <<>>, <<>>) : t \in {P_a, P_aa, P_dot}}

Clients == {1, 2}

(* -------------------------------- state ------------------------------- *)
NoLast ==
  [req |-> NoReq, status |-> "none", wrote |-> Null, client |-> 0,
   others |-> {}, twin |-> FALSE, raced |-> FALSE]

\* The process has started: lines 51-53 have ensured the storage root exists.
Init ==
  /\ dirs = Prefixes(RootSegs)
  /\ files = {}
  /\ pre = [dirs |-> Prefixes(RootSegs), files |-> {}]
  /\ last = NoLast
  /\ n = 0
  /\ pending = [c \in Clients |-> NoReq]
  /\ relPath = <<>>
  /\ result = Null

\* One request runs its handler to completion; c is the client it came from
\* (0 when the request is sent and handled in one step).
Serve(req, c) ==
  \E r \in {Handle(dirs, files, req)} :
     /\ dirs' = r.dirs
     /\ files' = r.files
     /\ pre' = [dirs |-> dirs, files |-> files]
     /\ last' = [req |-> req, status |-> r.status, wrote |-> r.wrote, client |-> c,
                 others |-> {k \in Clients \ {c} : pending[k] # NoReq},
                 twin |-> \E k \in Clients \ {c} : pending[k] = req,
                 raced |-> /\ c \in last.others
                           /\ last.req = req
                           /\ req.op = "delete"
                           /\ last.status = "302"]
     /\ n' = n + 1
     /\ UNCHANGED <<relPath, result>>

ReqGetRoot ==
  /\ n < MaxReqs
  /\ Serve(Req("root", <<>>, <<>>, <<>>), 0)
  /\ UNCHANGED pending

ReqPostFolder == \E name \in Targets \cup {<<>>} :
     /\ n < MaxReqs
     /\ Serve(Req("folder", name, <<>>, <<>>), 0)
     /\ UNCHANGED pending

ReqPostUpload ==
  \E folder \in Targets \cup {<<>>}, q \in QueryFolders, file \in FileNames \cup {NoFile} :
     /\ n < MaxReqs
     /\ Serve(Req("upload", folder, file, q), 0)
     /\ UNCHANGED pending

ReqGetDownload == \E rel \in Targets \cup {<<>>} :
     /\ n < MaxReqs
     /\ Serve(Req("download", rel, <<>>, <<>>), 0)
     /\ UNCHANGED pending

ReqGetApiFolder == \E rel \in Targets \cup {<<>>} :
     /\ n < MaxReqs
     /\ Serve(Req("api", rel, <<>>, <<>>), 0)
     /\ UNCHANGED pending

ReqGetDownloadFolder == \E folder \in Targets :
     /\ n < MaxReqs
     /\ Serve(Req("zip", folder, <<>>, <<>>), 0)
     /\ UNCHANGED pending

ReqPostDelete == \E target \in Targets \cup {<<>>} :
     /\ n < MaxReqs
     /\ Serve(Req("delete", target, <<>>, <<>>), 0)
     /\ UNCHANGED pending

ReqGetFolder == \E name \in Targets :
     /\ n < MaxReqs
     /\ Serve(Req("browse", name, <<>>, <<>>), 0)
     /\ UNCHANGED pending

Next ==
  \/ ReqGetRoot
  \/ ReqPostFolder
  \/ ReqPostUpload
  \/ ReqGetDownload
  \/ ReqGetApiFolder
  \/ ReqGetDownloadFolder
  \/ ReqPostDelete
  \/ ReqGetFolder

Spec == Init /\ [][Next]_vars

(* ----------------- concurrent requests on the event loop -------------- *)
\* A request has been received and parsed; its handler has not run yet.
Arrive(c) ==
  /\ pending[c] = NoReq
  /\ n + Cardinality({k \in Clients : pending[k] # NoReq}) < MaxConcReqs
  /\ \E req \in ConcRequests : pending' = [pending EXCEPT ![c] = req]
  /\ UNCHANGED <<dirs, files, pre, last, n, relPath, result>>

\* The event loop picks a waiting request and runs its handler.
Run(c) ==
  /\ pending[c] # NoReq
  /\ Serve(pending[c], c)
  /\ pending' = [pending EXCEPT ![c] = NoReq]

NextConc == \E c \in Clients : Arrive(c) \/ Run(c)

SpecConc == Init /\ [][NextConc]_vars

(* --------------------- resolveSafe on arbitrary input ------------------ *)
\* The client's string, built one character at a time
Extend ==
  /\ n = 0
  /\ Len(relPath) < MaxLen
  /\ \E c \in Alphabet : relPath' = Append(relPath, c)
  /\ UNCHANGED <<dirs, files, pre, last, n, pending, result>>

Resolve ==
  /\ n = 0
  /\ result' = resolveSafe(relPath)
  /\ n' = 1
  /\ UNCHANGED <<dirs, files, pre, last, pending, relPath>>

NextResolve == Extend \/ Resolve

SpecResolve == Init /\ [][NextResolve]_vars

(* =============================== claims =============================== *)
Resolved == n = 1 /\ last = NoLast

\* A ".." segment, the segments taken with either separator
HasDotDotSegment(s) == \E i \in DOMAIN SplitOn(s, {SLASH, BSLASH}) :
                          SplitOn(s, {SLASH, BSLASH})[i] = DotDot

\* Reading the "/"-separated segments left to right, some ".." has no
\* ordinary segment before it left to cancel.
RECURSIVE ClimbsFrom(_, _)
ClimbsFrom(segs, depth) ==
  IF segs = <<>> THEN FALSE
  ELSE IF Head(segs) = <<>> \/ Head(segs) = <<DOT>> THEN ClimbsFrom(Tail(segs), depth)
  ELSE IF Head(segs) = DotDot
       THEN (depth = 0 \/ ClimbsFrom(Tail(segs), depth - 1))
       ELSE ClimbsFrom(Tail(segs), depth + 1)

Climbs(s) == ClimbsFrom(SplitOn(s, {SLASH}), 0)

IsRelative(s) == s # <<>> /\ s[1] \notin {SLASH, BSLASH}

\* Where the kernel ends up walking path p from "/": "." stays, ".." goes up
RECURSIVE WalkFrom(_, _)
WalkFrom(segs, at) ==
  IF segs = <<>> THEN at
  ELSE IF Head(segs) = <<>> \/ Head(segs) = <<DOT>> THEN WalkFrom(Tail(segs), at)
  ELSE IF Head(segs) = DotDot
       THEN WalkFrom(Tail(segs), IF at = <<>> THEN at ELSE SubSeq(at, 1, Len(at) - 1))
       ELSE WalkFrom(Tail(segs), Append(at, Head(segs)))

InsideRoot(p) == IsUnder(WalkFrom(SplitOn(p, {SLASH}), <<>>), RootSegs)

C2_ResolvedInsideRoot ==
  (Resolved /\ result # Null) => InsideRoot(result)

C2_Witness ==
  /\ Resolved
  /\ relPath = <<SLASH, "u", "u">>
  /\ result = <<SLASH, "u", SLASH, "u", "u">>

Existed(p) == p # Null /\ existsSync(pre.dirs, pre.files, p)

Unchanged == dirs = pre.dirs /\ files = pre.files

\* C3: after any sequence of requests the storage root directory exists.
C3_RootNeverDeleted == RootSegs \in dirs

\* C4: no request ends with an exception leaving its handler.
C4_NoUncaughtException == last.status # "uncaught"

\* C5: of two POST /delete requests for the same existing path that wait
\* together, the one run first removes the entry (302) and the one run
\* next is answered 404.
C5_RacingDeletes ==
  /\ (last.req.op = "delete" /\ last.twin /\ last.req.a # <<>>
        /\ Existed(resolveSafe(last.req.a)))
     => (last.status = "302" /\ ~existsSync(dirs, files, resolveSafe(last.req.a)))
  /\ last.raced => (last.status = "404" /\ Unchanged)

C5_Witness == last.raced /\ last.status = "404" /\ last.req.a = P_aa

\* C6: POST /delete of a path that does not exist is answered 404 and
\* changes nothing; POST /delete of an existing file removes that file and
\* nothing else.
C6_DeleteFrame ==
  (last.req.op = "delete" /\ last.req.a # <<>> /\ resolveSafe(last.req.a) # Null)
  => LET safe == resolveSafe(last.req.a)
     IN /\ ~Existed(safe) => (last.status = "404" /\ Unchanged)
        /\ Segs(safe) \in pre.files =>
             /\ last.status = "302"
             /\ dirs = pre.dirs
             /\ files = pre.files \ {Segs(safe)}

C6_Witness ==
  /\ last.req.op = "delete"
  /\ last.status = "302"
  /\ Cardinality(pre.files) = 2
  /\ Cardinality(files) = 1
  /\ \A x \in pre.files : Len(x) = 2 /\ IsUnder(x, RootSegs)

AllListings(d, f) == [x \in d |-> listDirectory(d, f, <<SLASH>> \o JoinSegs(x))]

\* C7: POST /folder for a target that already exists ends with the redirect
\* and leaves the tree, hence every listing, as it was; and the same request
\* issued again after any POST /folder ends the same way and changes nothing.
C7_FolderIdempotent ==
  (last.req.op = "folder" /\ last.req.a # <<>>)
  => /\ Existed(resolveSafe(last.req.a)) =>
          /\ last.status = "302"
          /\ Unchanged
          /\ AllListings(dirs, files) = AllListings(pre.dirs, pre.files)
     /\ LET again == PostFolder(dirs, files, last.req.a)
        IN /\ again.dirs = dirs
           /\ again.files = files
           /\ again.status = last.status

C7_Witness ==
  /\ last.req.op = "folder"
  /\ Segs(resolveSafe(last.req.a)) \in pre.files
  /\ last.status = "302"

\* C8: POST /upload never creates a directory; with a folder named whose
\* resolution is null or does not exist it is answered 400 and writes
\* nothing; when it succeeds only the file at destination/filename is new.
C8_UploadFrame ==
  (last.req.op = "upload")
  => LET folder == IF last.req.a # <<>> THEN last.req.a ELSE last.req.q
         destDir == IF folder # <<>> THEN resolveSafe(folder) ELSE UPLOAD_DIR
     IN /\ dirs = pre.dirs
        /\ (folder # <<>> /\ ~Existed(destDir)) => (last.status = "400" /\ Unchanged)
        /\ last.status = "302" =>
             /\ pre.files \subseteq files
             /\ files \ pre.files \subseteq {WalkFrom(SplitOn(destDir \o <<SLASH>> \o last.req.b, {SLASH}), <<>>)}
        /\ last.status # "302" => Unchanged

C8_Witness ==
  /\ last.req.op = "upload"
  /\ last.req.a = P_aa
  /\ last.req.b # NoFile
  /\ last.status = "400"
  /\ Segs(resolveSafe(P_a)) \in dirs

\* C9: POST /folder with a name whose resolution is null is answered 400 and
\* changes nothing; POST /folder never creates a directory outside the
\* storage root's subtree.
C9_FolderRejectsInvalid ==
  (last.req.op = "folder")
  => /\ (last.req.a # <<>> /\ Climbs(last.req.a)) => (last.status = "400" /\ Unchanged)
     /\ (last.req.a # <<>> /\ resolveSafe(last.req.a) = Null) => (last.status = "400" /\ Unchanged)
     /\ \A x \in dirs \ pre.dirs : IsUnder(x, RootSegs)

C9_Witness ==
  /\ last.req.op = "folder"
  /\ last.req.a = P_up
  /\ last.status = "400"

====
